---------------------------- MODULE Spec2Model ----------------------------
(***************************************************************************)
(* ChargeTunis backend (src/main.py, src/schemas.py): the Luhn validator,  *)
(* startup seeding of the station collection, and the request handlers.    *)
(*                                                                         *)
(* Three specifications share the variables below:                         *)
(*   SpecLuhn  luhn_check as a pure function over a bounded input family   *)
(*   Spec      one server process: seed_data, then the request handlers    *)
(*   SpecSeed  several server processes running seed_data against one      *)
(*             store, interleaved at the granularity of store operations   *)
(***************************************************************************)
EXTENDS Integers, Sequences, FiniteSets, TLC

VARIABLES
    card,      \* SpecLuhn: the input string, a sequence of characters
    result,    \* SpecLuhn: outcome of luhn_check(card), or "none" before the call
    orig,      \* SpecLuhn: the valid number a single-digit alteration started from
    phase,     \* SpecLuhn: "input" | "checked" | "altered"
    db,        \* the document store: a sequence of [collection, doc]
    dbUp,      \* whether database.db is a connection (FALSE: db is None)
    pc,        \* per server process: "down" | "count" | "insert" | "serving"
    existing,  \* per server process: seed_data's local `existing`
    idx,       \* per server process: position of seed_data's loop in SEED_STATIONS
    starts,    \* per server process: how many times it was started
    last,      \* name of the operation that acted last
    req,       \* the payload of the last request
    resp,      \* the response of the last request
    prev,      \* history: the confirm_payment exchange before the last one
    issued     \* history: client secrets returned by create_payment_intent

luhnVars == <<card, result, orig, phase>>
storeVars == <<db, dbUp>>
procVars == <<pc, existing, idx, starts>>
reqVars == <<last, req, resp, prev, issued>>
vars == <<card, result, orig, phase, db, dbUp, pc, existing, idx, starts,
          last, req, resp, prev, issued>>

---------------------------------------------------------------------------
(* Characters.  A card_number is a Python str: besides the ASCII digits it *)
(* may hold any Unicode character.  One representative of each class that  *)
(* line 26 (`int(d) for d in card_number if d.isdigit()`) tells apart:     *)
(*   "-"     not a digit: str.isdigit() is False                           *)
(*   "ar3"   U+0663 ARABIC-INDIC DIGIT THREE: isdigit() True, int() = 3    *)
(*   "sup2"  U+00B2 SUPERSCRIPT TWO: isdigit() True, int() raises          *)
(*           ValueError (isdigit accepts it, isdecimal does not)           *)

AsciiDigits == {"0", "1", "2", "3", "4", "5", "6", "7", "8", "9"}

Dash == "-"

ArabicThree == "ar3"

SuperTwo == "sup2"

Alphabet == AsciiDigits \cup {Dash, ArabicThree, SuperTwo}

\* str.isdigit()
isdigit(c) == c \in AsciiDigits \cup {ArabicThree, SuperTwo}

\* the characters int() converts
IntDomain == AsciiDigits \cup {ArabicThree}

\* int(d) of a one-character string
IntValue ==
    [c \in IntDomain |->
        CASE c = "0" -> 0 [] c = "1" -> 1 [] c = "2" -> 2 [] c = "3" -> 3
          [] c = "4" -> 4 [] c = "5" -> 5 [] c = "6" -> 6 [] c = "7" -> 7
          [] c = "8" -> 8 [] c = "9" -> 9 [] c = ArabicThree -> 3]

\* outcomes of a call: the two booleans, or the exception it raises
RTrue == "True"

RFalse == "False"

RValueError == "ValueError"

---------------------------------------------------------------------------
(* luhn_check, src/main.py lines 25-37 *)

\* line 27: `if len(digits) < 12`, off by one
TooShortOffByOne(digits) == Len(digits) <= 12

\* line 27: `if len(digits) < 12`
TooShort(digits) == Len(digits) < 12

\* lines 33-35 without the `d -= 9`
DoubledNoWrap(d) == d * 2

\* lines 33-35: d *= 2; if d > 9: d -= 9
Doubled(d) == IF d * 2 > 9 THEN d * 2 - 9 ELSE d * 2

\* line 30: parity = len(digits) % 2
Parity(digits) == Len(digits) % 2

\* lines 31-36: the loop, i counting from 0 as enumerate does
RECURSIVE LuhnLoop(_, _, _, _)
LuhnLoop(digits, parity, i, checksum) ==
    IF i = Len(digits) THEN checksum
    ELSE LET d == digits[i + 1]
         IN LuhnLoop(digits, parity, i + 1,
                     checksum + (IF i % 2 = parity THEN Doubled(d) ELSE d))

luhn_check(card_number) ==
    LET digitChars == SelectSeq(card_number, isdigit)
    IN IF \E k \in 1..Len(digitChars) : digitChars[k] \notin IntDomain
       THEN RValueError
       ELSE LET digits == [k \in 1..Len(digitChars) |-> IntValue[digitChars[k]]]
            IN IF TooShort(digits) THEN RFalse
               ELSE IF LuhnLoop(digits, Parity(digits), 0, 0) % 10 = 0
                    THEN RTrue ELSE RFalse

---------------------------------------------------------------------------
(* Bounds of the model *)

\* longest input string of the family
MaxLen == 16

\* width of the window of arbitrary characters patched into a base string
MaxPatch == 2

\* server processes sharing one store
NumProcs == 2

\* starts (first start and restarts) per server process
MaxStarts == 2

\* documents inserted into the station collection from outside the service
MaxExternal == 1

\* distinct values uuid4() is drawn from
MaxUuid == 1

Procs == 1..NumProcs

---------------------------------------------------------------------------
(* The input family of SpecLuhn: a base string (a repeated digit pattern,  *)
(* all zeros, or all dashes) of any length in Lens, in which a window of   *)
(* up to MaxPatch adjacent characters, at any position, is replaced by     *)
(* arbitrary characters of Alphabet; and the strings the specification     *)
(* names.                                                                  *)

Cycle(seed, n) == [i \in 1..n |-> seed[((i - 1) % Len(seed)) + 1]]

BaseSeeds ==
    { <<"4", "2">>,
      <<"7", "9", "9", "2", "7", "3", "9", "8", "7", "1", "3">>,
      <<"0">>,
      <<Dash>> }

Lens == 0..MaxLen

Windows == UNION { [1..k -> Alphabet] : k \in 0..MaxPatch }

Patch(s, p, w) ==
    [i \in 1..Len(s) |-> IF i >= p /\ i < p + Len(w) THEN w[i - p + 1] ELSE s[i]]

Four == <<"4", "2", "4", "2">>

Formatted4242 == Four \o <<Dash>> \o Four \o <<Dash>> \o Four \o <<Dash>> \o Four

Formatted1234 ==
    <<"1", "2", "3", "4", Dash, "5", "6", "7", "8", Dash, "9", "0", "1", "2">>

NamedInputs == {Formatted4242, Formatted1234}

Zeros(n) == [i \in 1..n |-> "0"]

\* the state of the variables a specification does not use
IdleLuhn ==
    /\ card = <<>>
    /\ result = "none"
    /\ orig = <<>>
    /\ phase = "input"

IdleProcs ==
    /\ pc = [p \in Procs |-> "down"]
    /\ existing = [p \in Procs |-> 0]
    /\ idx = [p \in Procs |-> 0]
    /\ starts = [p \in Procs |-> 0]

IdleReqs ==
    /\ last = "none"
    /\ req = [kind |-> "none"]
    /\ resp = [kind |-> "none"]
    /\ prev = [kind |-> "none"]
    /\ issued = {}

InitLuhn ==
    /\ \/ \E seed \in BaseSeeds, n \in Lens, w \in Windows :
            \E p \in 1..(n - Len(w) + 1) : card = Patch(Cycle(seed, n), p, w)
       \/ card \in NamedInputs
    /\ result = "none"
    /\ orig = <<>>
    /\ phase = "input"
    /\ db = <<>>
    /\ dbUp = TRUE
    /\ IdleProcs
    /\ IdleReqs

\* a call luhn_check(card)
LuhnCall ==
    /\ phase = "input"
    /\ result' = luhn_check(card)
    /\ phase' = "checked"
    /\ UNCHANGED <<card, orig, storeVars, procVars, reqVars>>

IsAsciiDigitString(s) == \A k \in 1..Len(s) : s[k] \in AsciiDigits

\* a valid number of ASCII digits has one digit replaced by another digit,
\* and luhn_check is called on the altered number
AlterDigit ==
    /\ phase = "checked"
    /\ result = RTrue
    /\ IsAsciiDigitString(card)
    /\ \E i \in 1..Len(card) :
          \E d \in AsciiDigits \ {card[i]} :
              /\ card' = [card EXCEPT ![i] = d]
              /\ result' = luhn_check([card EXCEPT ![i] = d])
    /\ orig' = card
    /\ phase' = "altered"
    /\ UNCHANGED <<storeVars, procVars, reqVars>>

NextLuhn == LuhnCall \/ AlterDigit

SpecLuhn == InitLuhn /\ [][NextLuhn]_vars

---------------------------------------------------------------------------
(* The document store.  database.py is not among the sources: db,          *)
(* create_document and get_documents are modelled as the thin wrapper over *)
(* a document store that the specification describes.  A stored document   *)
(* is the inserted data plus the "_id" the store assigns.  Coordinates and *)
(* prices are in thousandths.                                              *)

\* src/main.py lines 41-82
SEED_STATIONS ==
    << [name |-> "Lac 1 Supercharger", city |-> "Tunis", latitude |-> 36849,
        longitude |-> 10283, power_kw |-> 120, price_tnd_per_kwh |-> 1200,
        capacity |-> 6, brand |-> "ChargeTunis"],
       [name |-> "La Marsa Marina", city |-> "La Marsa", latitude |-> 36878,
        longitude |-> 10325, power_kw |-> 50, price_tnd_per_kwh |-> 1000,
        capacity |-> 4, brand |-> "ChargeTunis"],
       [name |-> "Sfax City Center", city |-> "Sfax", latitude |-> 34739,
        longitude |-> 10760, power_kw |-> 60, price_tnd_per_kwh |-> 900,
        capacity |-> 3, brand |-> "ChargeTunis"],
       [name |-> "Sousse Corniche", city |-> "Sousse", latitude |-> 35830,
        longitude |-> 10638, power_kw |-> 80, price_tnd_per_kwh |-> 1100,
        capacity |-> 5, brand |-> "ChargeTunis"] >>

\* station documents inserted from outside the service: one without a
\* capacity field, and one, in the collection before the server starts,
\* with the smallest capacity schemas.Station allows
ExternalDoc == [name |-> "External A", city |-> "Bizerte"]

PreexistingDoc == [name |-> "External B", city |-> "Gabes", capacity |-> 1]

\* create_document(collection, data): the store after the insert
create_document(store, collection, data) ==
    Append(store, [collection |-> collection,
                   doc |-> ("_id" :> (Len(store) + 1)) @@ data])

\* get_documents(collection): fresh copies of the collection's documents
get_documents(store, collection) ==
    LET inColl(e) == e.collection = collection
        found == SelectSeq(store, inColl)
    IN [k \in 1..Len(found) |-> found[k].doc]

\* db[collection].count_documents({})
count_documents(store, collection) == Len(get_documents(store, collection))

\* db.list_collection_names()
list_collection_names(store) == { store[k].collection : k \in 1..Len(store) }

---------------------------------------------------------------------------
(* seed_data, src/main.py lines 84-92, one store operation per step.  With *)
(* db None (dbUp = FALSE) line 87 raises, the except clause prints, and    *)
(* startup completes with nothing inserted.                                *)

\* lines 87-88: existing = count_documents({}); if existing == 0
SeedCount(p) ==
    /\ pc[p] = "count"
    /\ last' = "seed_data"
    /\ IF dbUp
       THEN LET n == count_documents(db, "station")
            IN /\ existing' = [existing EXCEPT ![p] = n]
               /\ IF n = 0
                  THEN /\ pc' = [pc EXCEPT ![p] = "insert"]
                       /\ idx' = [idx EXCEPT ![p] = 1]
                  ELSE /\ pc' = [pc EXCEPT ![p] = "serving"]
                       /\ UNCHANGED idx
       ELSE /\ pc' = [pc EXCEPT ![p] = "serving"]
            /\ UNCHANGED <<existing, idx>>
    /\ UNCHANGED <<luhnVars, storeVars, starts, req, resp, prev, issued>>

\* lines 89-90: one iteration of `for s in SEED_STATIONS: create_document`
SeedInsert(p) ==
    /\ pc[p] = "insert"
    /\ last' = "seed_data"
    /\ db' = create_document(db, "station", SEED_STATIONS[idx[p]])
    /\ IF idx[p] = Len(SEED_STATIONS)
       THEN /\ pc' = [pc EXCEPT ![p] = "serving"]
            /\ idx' = [idx EXCEPT ![p] = 0]
       ELSE /\ pc' = pc
            /\ idx' = [idx EXCEPT ![p] = idx[p] + 1]
    /\ UNCHANGED <<luhnVars, dbUp, existing, starts, req, resp, prev, issued>>

\* line 84: a server process starts and its startup event runs seed_data
Start(p) ==
    /\ pc[p] = "down"
    /\ starts[p] < MaxStarts
    /\ pc' = [pc EXCEPT ![p] = "count"]
    /\ starts' = [starts EXCEPT ![p] = starts[p] + 1]
    /\ last' = "start"
    /\ UNCHANGED <<luhnVars, storeVars, existing, idx, req, resp, prev, issued>>

\* a server process stops, at any point of its run
Stop(p) ==
    /\ pc[p] # "down"
    /\ pc' = [pc EXCEPT ![p] = "down"]
    /\ idx' = [idx EXCEPT ![p] = 0]
    /\ last' = "stop"
    /\ UNCHANGED <<luhnVars, storeVars, existing, starts, req, resp, prev, issued>>

\* a station document is inserted into the store from outside the service,
\* while no server process is in the middle of seed_data
ExternalInsert ==
    /\ dbUp
    /\ \A p \in Procs : pc[p] \in {"down", "serving"}
    /\ Cardinality({k \in 1..Len(db) : db[k].doc.name = ExternalDoc.name})
          < MaxExternal
    /\ db' = create_document(db, "station", ExternalDoc)
    /\ last' = "external_insert"
    /\ UNCHANGED <<luhnVars, dbUp, procVars, req, resp, prev, issued>>

Serving == \E p \in Procs : pc[p] = "serving"

---------------------------------------------------------------------------
(* The request handlers, src/main.py lines 96-161.  A handler runs once a  *)
(* server process has completed startup.                                   *)

HandlerNames ==
    {"root", "list_stations", "create_payment_intent", "confirm_payment",
     "test_database"}

\* datetime.utcnow().second
Seconds == 0..59

Max(a, b) == IF a >= b THEN a ELSE b

\* line 109 with the modulus off by one
AvailableModCapacity(capacity, now) == Max(0, capacity - (now % capacity))

\* lines 109-110: occupied = now % (capacity + 1); max(0, capacity - occupied)
Available(capacity, now) == Max(0, capacity - (now % (capacity + 1)))

\* line 108: it.get("capacity", 4)
CapacityOf(it) == IF "capacity" \in DOMAIN it THEN it.capacity ELSE 4

\* str(x)
Str(x) == <<"str", x>>

\* lines 107-113: the items of the response, all computed from one `now`
StationItems(items, now) ==
    [k \in 1..Len(items) |->
        ("available" :> Available(CapacityOf(items[k]), now))
        @@ ("id" :> Str(items[k]["_id"])) @@ items[k]]

\* lines 96-98
root ==
    /\ Serving
    /\ last' = "root"
    /\ req' = [kind |-> "root"]
    /\ resp' = [kind |-> "root", message |-> "ChargeTunis backend running"]
    /\ UNCHANGED <<luhnVars, storeVars, procVars, prev, issued>>

\* lines 100-116 with the computed items saved back to the collection
list_stations_saving ==
    /\ Serving
    /\ last' = "list_stations"
    /\ req' = [kind |-> "list_stations"]
    /\ IF dbUp
       THEN \E now \in Seconds :
              LET result_ == StationItems(get_documents(db, "station"), now)
              IN /\ resp' = [kind |-> "stations", now |-> now,
                             stations |-> result_]
                 /\ db' = [k \in 1..Len(result_) |->
                              [collection |-> "station", doc |-> result_[k]]]
       ELSE /\ resp' = [kind |-> "error", status_code |-> 500]
            /\ db' = db
    /\ UNCHANGED <<luhnVars, dbUp, procVars, prev, issued>>

\* lines 100-116.  With db None get_documents raises and the handler
\* answers HTTP 500.  `now` is kept in the response record for the claims;
\* the HTTP response does not carry it.
list_stations ==
    /\ Serving
    /\ last' = "list_stations"
    /\ req' = [kind |-> "list_stations"]
    /\ IF dbUp
       THEN \E now \in Seconds :
              resp' = [kind |-> "stations", now |-> now,
                       stations |-> StationItems(get_documents(db, "station"), now)]
       ELSE resp' = [kind |-> "error", status_code |-> 500]
    /\ UNCHANGED <<luhnVars, storeVars, procVars, prev, issued>>

\* kwh and price_tnd_per_kwh of a PaymentIntentIn, in thousandths
KwhValues == {1500, 12345}

PriceValues == {0, 1111}

\* round(x, 3) of a product of two thousandths, half to even, in thousandths
Round3(millionths) ==
    LET q == millionths \div 1000
        r == millionths % 1000
    IN IF r > 500 \/ (r = 500 /\ q % 2 = 1) THEN q + 1 ELSE q

\* uuid4().hex
Uuids == 1..MaxUuid

\* f"pi_{uuid4().hex}"
Secrets == { <<"pi_", u>> : u \in Uuids }

\* lines 118-122
create_payment_intent ==
    /\ Serving
    /\ last' = "create_payment_intent"
    /\ \E kwh \in KwhValues, price \in PriceValues, u \in Uuids :
          /\ req' = [kind |-> "create_payment_intent", station_id |-> 1,
                     kwh |-> kwh, price_tnd_per_kwh |-> price]
          /\ resp' = [kind |-> "intent", client_secret |-> <<"pi_", u>>,
                      amount_tnd |-> Round3(kwh * price), currency |-> "TND"]
          /\ issued' = issued \cup {<<"pi_", u>>}
    /\ UNCHANGED <<luhnVars, storeVars, procVars, prev>>

\* card numbers of the confirm requests: the specification's examples, a
\* number that is too short, and a number holding U+00B2
ServiceCards ==
    { Cycle(<<"4", "2">>, 16),
      [Cycle(<<"4", "2">>, 16) EXCEPT ![16] = "1"],
      Formatted4242,
      Zeros(11),
      Cycle(<<"4", "2">>, 16) \o <<SuperTwo>> }

\* exp_month, exp_year and cvc of a PaymentConfirmIn: a plausible triple,
\* and one with no such month, a past year and an empty cvc
OtherFields ==
    { [exp_month |-> 1, exp_year |-> 2030, cvc |-> "123"],
      [exp_month |-> 13, exp_year |-> 2020, cvc |-> ""] }

\* Optional[str] = None
None == <<"None">>

\* lines 126-129, with txn the value of uuid4().hex[:12].  An exception of
\* luhn_check is not caught: the request is answered HTTP 500.
ConfirmResult(payload, txn) ==
    CASE luhn_check(payload.card_number) = RValueError ->
           [kind |-> "error", status_code |-> 500]
      [] luhn_check(payload.card_number) = RFalse ->
           [kind |-> "result", status |-> "failed", transaction_id |-> None,
            message |-> "Invalid card number"]
      [] luhn_check(payload.card_number) = RTrue ->
           [kind |-> "result", status |-> "succeeded",
            transaction_id |-> <<"txn_", txn>>, message |-> "Payment confirmed"]

\* lines 124-129.  secret_issued (whether create_payment_intent has returned
\* the request's client_secret) and prev (the card number and the response
\* of one earlier exchange, remembered or not at the time it happens) are
\* history kept for the claims; the handler reads neither.
confirm_payment ==
    /\ Serving
    /\ last' = "confirm_payment"
    /\ \E c \in ServiceCards, secret \in Secrets, o \in OtherFields,
          u \in Uuids,
          remember \in (IF prev.kind = "none" THEN BOOLEAN ELSE {FALSE}) :
          LET payload == [kind |-> "confirm_payment", client_secret |-> secret,
                          card_number |-> c, exp_month |-> o.exp_month,
                          exp_year |-> o.exp_year, cvc |-> o.cvc,
                          secret_issued |-> secret \in issued]
          IN /\ req' = payload
             /\ resp' = ConfirmResult(payload, u)
             /\ prev' = IF remember
                        THEN [kind |-> "exchange",
                              card_number |-> payload.card_number,
                              resp |-> ConfirmResult(payload, u)]
                        ELSE prev
    /\ UNCHANGED <<luhnVars, storeVars, procVars, issued>>

\* lines 131-161.  The environment variables are read at each request.
test_database ==
    /\ Serving
    /\ last' = "test_database"
    /\ req' = [kind |-> "test_database"]
    /\ \E urlSet \in BOOLEAN, nameSet \in BOOLEAN :
          resp' = [kind |-> "test", backend |-> "Running",
                   database |-> IF dbUp THEN "Connected & Working"
                                ELSE "Available but not initialized",
                   connection_status |-> IF dbUp THEN "Connected"
                                         ELSE "Not Connected",
                   collections |-> IF dbUp THEN list_collection_names(db) ELSE {},
                   database_url |-> IF urlSet THEN "Set" ELSE "Not Set",
                   database_name |-> IF nameSet THEN "Set" ELSE "Not Set"]
    /\ UNCHANGED <<luhnVars, storeVars, procVars, prev, issued>>

---------------------------------------------------------------------------
(* Spec: one server process.  It has just been started; its startup event  *)
(* runs seed_data, and then it serves requests.                            *)

Init ==
    /\ IdleLuhn
    /\ dbUp \in BOOLEAN
    /\ db \in IF dbUp
              THEN {<<>>, create_document(<<>>, "station", PreexistingDoc)}
              ELSE {<<>>}
    /\ pc = [p \in Procs |-> IF p = 1 THEN "count" ELSE "down"]
    /\ existing = [p \in Procs |-> 0]
    /\ idx = [p \in Procs |-> 0]
    /\ starts = [p \in Procs |-> IF p = 1 THEN 1 ELSE 0]
    /\ IdleReqs

Next ==
    \/ SeedCount(1)
    \/ SeedInsert(1)
    \/ ExternalInsert
    \/ root
    \/ list_stations
    \/ create_payment_intent
    \/ confirm_payment
    \/ test_database

Spec == Init /\ [][Next]_vars

(* SpecSeed: NumProcs server processes against one store, each started and *)
(* stopped at any time; only startup seeding is followed.                  *)

InitSeed ==
    /\ IdleLuhn
    /\ db = <<>>
    /\ dbUp \in BOOLEAN
    /\ IdleProcs
    /\ IdleReqs

NextSeed ==
    \E p \in Procs : Start(p) \/ SeedCount(p) \/ SeedInsert(p) \/ Stop(p)

SpecSeed == InitSeed /\ [][NextSeed]_vars

---------------------------------------------------------------------------
(* The reference the claims compare luhn_check with: the standard Luhn     *)
(* mod-10 check, computed from the rightmost digit, on the values of the   *)
(* digit characters of the input.  A digit character is what str.isdigit() *)
(* accepts; its value is its Unicode digit value (2 for U+00B2).           *)

UnicodeDigit(c) == IF c = SuperTwo THEN 2 ELSE IntValue[c]

DigitChars(s) == SelectSeq(s, isdigit)

DigitValues(s) ==
    LET dc == DigitChars(s) IN [k \in 1..Len(dc) |-> UnicodeDigit(dc[k])]

\* the sum of the decimal digits of 2 * d
StdDouble(d) == ((2 * d) \div 10) + ((2 * d) % 10)

\* the Luhn sum of the last j digits of ds, j counting from the right:
\* the 2nd, 4th, ... digit from the right is doubled, the rightmost never
RECURSIVE StdLuhnSum(_, _)
StdLuhnSum(ds, j) ==
    IF j = 0 THEN 0
    ELSE LET d == ds[Len(ds) - j + 1]
         IN (IF j % 2 = 0 THEN StdDouble(d) ELSE d) + StdLuhnSum(ds, j - 1)

StdLuhnAccepts(ds) == StdLuhnSum(ds, Len(ds)) % 10 = 0

Convertible(s) == \A k \in 1..Len(s) : isdigit(s[k]) => s[k] \in IntDomain

---------------------------------------------------------------------------
(* Claims about luhn_check (SpecLuhn) *)

\* C1: for every input with 12 or more digit characters, luhn_check returns
\* true exactly when the standard Luhn check (from the rightmost digit)
\* accepts the digit sequence.
C1_MatchesStandardLuhn ==
    (phase = "checked" /\ Len(DigitChars(card)) >= 12)
        => ((result = RTrue) <=> StdLuhnAccepts(DigitValues(card)))

\* C1 on the inputs whose digit characters int() converts: the part of C1
\* that the code satisfies, for even and odd digit counts alike.
C1_OnConvertibleInputs ==
    (phase = "checked" /\ Len(DigitChars(card)) >= 12 /\ Convertible(card))
        => /\ result \in {RTrue, RFalse}
           /\ (result = RTrue) <=> StdLuhnAccepts(DigitValues(card))

\* C2: every input with fewer than 12 digit characters gets the result false.
C2_ShortInputReturnsFalse ==
    (phase = "checked" /\ Len(DigitChars(card)) < 12) => result = RFalse

\* C2 on the inputs whose digit characters int() converts.
C2_OnConvertibleInputs ==
    (phase = "checked" /\ Len(DigitChars(card)) < 12 /\ Convertible(card))
        => result = RFalse

\* C3: a valid number of at least 12 digits with any one digit replaced by a
\* different digit is rejected: luhn_check returns false for it.
C3_SingleDigitAlterationRejected ==
    (/\ phase = "altered"
     /\ IsAsciiDigitString(orig)
     /\ Len(orig) >= 12
     /\ luhn_check(orig) = RTrue
     /\ Len(card) = Len(orig)
     /\ card # orig)
        => result = RFalse

\* C3's case: the valid number 4242424242424242 altered in a doubled
\* position (the second-to-last digit) and rejected.
C3_Witness ==
    /\ phase = "altered"
    /\ orig = Cycle(<<"4", "2">>, 16)
    /\ luhn_check(orig) = RTrue
    /\ card[15] # orig[15]
    /\ result = RFalse

\* C4: for every input, luhn_check returns a boolean without raising, and
\* the result is that of the input with every non-digit character deleted.
C4_TotalAndIgnoresNonDigits ==
    phase = "checked"
        => /\ result \in {RTrue, RFalse}
           /\ result = luhn_check(DigitChars(card))

\* C4 without its "never raises": the outcome (a boolean or the exception)
\* is that of the input with every non-digit character deleted.
C4_OutcomeIgnoresNonDigits ==
    phase = "checked" => result = luhn_check(DigitChars(card))

\* C5: 12 is the smallest accepted digit count.  Twelve zeros are accepted,
\* eleven zeros are not; a string of exactly 12 digits is accepted exactly
\* when its checksum is divisible by 10, no shorter digit string is, and no
\* input at all is accepted with fewer than 12 digit characters.
C5_TwelveIsTheMinimum ==
    phase = "checked"
        => /\ card = Zeros(12) => result = RTrue
           /\ card = Zeros(11) => result = RFalse
           /\ (IsAsciiDigitString(card) /\ Len(card) = 12)
                 => ((result = RTrue) <=> StdLuhnAccepts(DigitValues(card)))
           /\ (IsAsciiDigitString(card) /\ Len(card) < 12) => result = RFalse
           /\ result = RTrue => Len(DigitChars(card)) >= 12

\* C5's case: the call on twelve zeros has returned true.
C5_Witness ==
    phase = "checked" /\ card = Zeros(12) /\ result = RTrue

---------------------------------------------------------------------------
(* Claims about the request handlers (Spec) *)

\* status of a confirm_payment response; an HTTP 500 has none
StatusOf(r) == IF r.kind = "result" THEN r.status ELSE "http 500"

\* C6: every confirm_payment request gets status "succeeded" with a
\* transaction id exactly when luhn_check(card_number) is true, and otherwise
\* status "failed", no transaction id and the message "Invalid card number";
\* two requests with the same card number get the same status.
C6_ConfirmDecidedByLuhnAlone ==
    last = "confirm_payment"
        => /\ IF luhn_check(req.card_number) = RTrue
              THEN /\ resp.kind = "result"
                   /\ resp.status = "succeeded"
                   /\ resp.transaction_id # None
              ELSE /\ resp.kind = "result"
                   /\ resp.status = "failed"
                   /\ resp.transaction_id = None
                   /\ resp.message = "Invalid card number"
           /\ (prev.kind = "exchange" /\ prev.card_number = req.card_number)
                 => StatusOf(prev.resp) = StatusOf(resp)

\* C6 on the card numbers whose digit characters int() converts.
C6_OnConvertibleCards ==
    (last = "confirm_payment" /\ Convertible(req.card_number))
        => /\ IF luhn_check(req.card_number) = RTrue
              THEN /\ resp.kind = "result"
                   /\ resp.status = "succeeded"
                   /\ resp.transaction_id # None
              ELSE /\ resp.kind = "result"
                   /\ resp.status = "failed"
                   /\ resp.transaction_id = None
                   /\ resp.message = "Invalid card number"
           /\ (prev.kind = "exchange" /\ prev.card_number = req.card_number)
                 => StatusOf(prev.resp) = StatusOf(resp)

\* C6's last sentence: a confirmation has succeeded with a client_secret
\* that create_payment_intent never returned.
C6_SucceededWithUnissuedSecret ==
    /\ last = "confirm_payment"
    /\ ~req.secret_issued
    /\ resp.kind = "result"
    /\ resp.status = "succeeded"

\* C7: no request handler writes to the document store: a step of root,
\* list_stations, create_payment_intent, confirm_payment or test_database
\* leaves the store as it was, so the store never holds anything but the
\* station documents, and none of them carries an available count.
C7_HandlersDoNotWrite ==
    /\ [][last' \in HandlerNames => db' = db]_vars
    /\ [](\A k \in 1..Len(db) :
            /\ db[k].collection = "station"
            /\ "available" \notin DOMAIN db[k].doc)

\* C7's case: intents were created, payments confirmed and the seeded
\* stations listed with their available counts, and the store holds the
\* station documents only, without an available count.
C7_Witness ==
    /\ last = "list_stations"
    /\ resp.kind = "stations"
    /\ Len(resp.stations) >= 4
    /\ Len(resp.stations) = Len(db)
    /\ \A k \in 1..Len(db) :
          /\ "available" \in DOMAIN resp.stations[k]
          /\ "available" \notin DOMAIN db[k].doc
    /\ issued # {}
    /\ prev.kind = "exchange"

\* C9: in a list_stations response computed at second s, every station of
\* stored capacity c >= 1 (4 when the document has no capacity field)
\* reports available = c - (s mod (c + 1)), which lies in 0..c.
C9_AvailableFormula ==
    (last = "list_stations" /\ resp.kind = "stations")
        => /\ resp.now \in 0..59
           /\ Len(resp.stations) = Len(db)
           /\ \A k \in 1..Len(db) :
                 LET stored == db[k].doc
                     c == IF "capacity" \in DOMAIN stored
                          THEN stored.capacity ELSE 4
                     a == resp.stations[k].available
                 IN c >= 1 => /\ a = c - (resp.now % (c + 1))
                              /\ 0 <= a
                              /\ a <= c

\* C9's case: a response listing the four seeded stations and one without a
\* capacity field, at a second where one station has no connector free and
\* the default capacity 4 shows.
C9_Witness ==
    /\ last = "list_stations"
    /\ resp.kind = "stations"
    /\ Len(resp.stations) = 5
    /\ \E k \in 1..5 : resp.stations[k].available = 0
    /\ \E k \in 1..5 :
          /\ "capacity" \notin DOMAIN resp.stations[k]
          /\ resp.stations[k].available = 4 - (resp.now % 5)
          /\ resp.now % 5 # 0

---------------------------------------------------------------------------
(* Claims about startup seeding (SpecSeed) *)

SeedCopies(k) ==
    Cardinality({j \in 1..Len(db) : db[j].doc.name = SEED_STATIONS[k].name})

\* C10: under any interleaving of seed_data runs against one store, every
\* reachable state holds each of the 4 SEED_STATIONS at most once.
C10_SeedsNeverDuplicated ==
    \A k \in 1..Len(SEED_STATIONS) : SeedCopies(k) <= 1

\* C10's second part: a seed_data run that finds the collection non-empty
\* inserts nothing: it goes on to serve (or is stopped).
C10_NonEmptyRunInsertsNothing ==
    [][\A p \in Procs :
          (pc[p] = "count" /\ dbUp /\ count_documents(db, "station") # 0)
              => pc'[p] \in {"count", "serving", "down"}]_vars

=============================================================================
